---- MODULE Spec2Model ----
(***************************************************************************)
(* Model of sdsl::wt_rlmn (include/sdsl/wt_rlmn.hpp), the run-length       *)
(* wavelet tree of Maekinen and Navarro, and of sdsl::hac_vector           *)
(* (include/sdsl/hac_vector.hpp).                                          *)
(*                                                                         *)
(* Sequences of the program (the text, bit vectors, the run heads, the     *)
(* tables m_C and m_C_bf_rank) are TLA+ sequences; the program's 0-based   *)
(* index i is position i+1 of the sequence (operator At).                  *)
(***************************************************************************)
EXTENDS Integers, Sequences, FiniteSets, TLC

VARIABLES
    objs,     \* slot -> wt_rlmn object (its fields), or a slot not yet constructed
    text,     \* history: slot -> the byte sequence the object represents
    stream,   \* the byte stream written by serialize and read by load
    ndebug,   \* the build: TRUE when NDEBUG compiles the assert()s out
    res,      \* the last query and its outcome
    last,     \* history: whether the last operation swapped two objects, and which
    hac,      \* the hac_vector object
    hsrc,     \* history: the container the hac_vector was built from
    hres      \* the last hac_vector::operator[] and its outcome

vars == <<objs, text, stream, ndebug, res, last, hac, hsrc, hres>>

\* ------------------------------------------------------------------ bounds

\* longest text enumerated for construction + queries
MaxLen == 4
\* number of object slots where objects are copied and swapped
NObj == 2
\* longest container a hac_vector is built from
MaxHacLen == 2

\* size of the byte alphabet: int_vector<64>(256, 0)
AlphabetSize == 256

NULL == 0
None == 0 - 1

\* bytes the enumerated texts are drawn from: '\0', 'a', 'b'
TextBytes == {0, 97, 98}
\* "abracadabra"
Abracadabra == <<97, 98, 114, 97, 99, 97, 100, 97, 98, 114, 97>>
\* bytes asked about: those of the texts and bytes below, between and above them
QueryBytes == {0, 1, 97, 98, 99, 100, 114, 255}
\* values an out-of-bounds read may produce
UBValues == {0, 1, 255}

SeqsUpTo(S, n) == UNION {[1..k -> S] : k \in 0..n}
Texts == SeqsUpTo(TextBytes, MaxLen) \cup {Abracadabra}
\* the texts objects are built from where they are copied and swapped: "ab"
\* and "bba"
ObjTexts == {<<97, 98>>, <<98, 98, 97>>}
Slots == 1..NObj

\* ----------------------------------------------------------------- helpers

\* v[i] for the program's 0-based index i.  A read outside v has no defined
\* value in the program; None stands for it here, and a query only comes to
\* such a read after one of its assert()s has failed (see Outcomes).
At(v, i) == IF (i + 1) \in DOMAIN v THEN v[i + 1] ELSE None
\* v with v[i] = x for the program's 0-based index i
Put(v, i, x) == [v EXCEPT ![i + 1] = x]
\* int_vector / bit_vector (n, x): n entries, all x
Fill(n, x) == [k \in 1..n |-> x]

\* rank support: number of ones in v[0..i)
BRank(v, i) == Cardinality({k \in 0..(i - 1) : At(v, k) = 1})
\* select support: position of the j-th one of v, 1 <= j <= number of ones
BSelect(v, j) ==
    LET hit == {p \in 0..(Len(v) - 1) : At(v, p) = 1 /\ BRank(v, p) = j - 1}
    IN IF hit = {} THEN None ELSE CHOOSE p \in hit : TRUE

\* the wavelet tree of the run heads H (wt_huff): access, rank, select,
\* inverse_select and sigma
WtAccess(H, k) == At(H, k)
WtRank(H, k, c) == Cardinality({j \in 0..(k - 1) : At(H, j) = c})
WtSelect(H, j, c) ==
    LET hit == {p \in 0..(Len(H) - 1) : At(H, p) = c /\ WtRank(H, p, c) = j - 1}
    IN IF hit = {} THEN None ELSE CHOOSE p \in hit : TRUE
WtInverseSelect(H, k) == <<WtRank(H, k, At(H, k)), At(H, k)>>
WtSigma(H) == Cardinality({At(H, k) : k \in 0..(Len(H) - 1)})

\* ------------------------------------------------------------ construction

\* pass 1 (the loop over the text): mark the run heads in bl, write each run
\* head to wt_out, count the bytes in m_C
RECURSIVE Pass1Loop(_, _, _, _)
Pass1Loop(text_buf, size, i, st) ==
    IF i >= size THEN st
    ELSE LET c == At(text_buf, i)
             head == (st.last_c # c \/ i = 0)
         IN Pass1Loop(text_buf, size, i + 1,
                [bl     |-> IF head THEN Put(st.bl, i, 1) ELSE st.bl,
                 wt_out |-> IF head THEN Append(st.wt_out, c) ELSE st.wt_out,
                 m_C    |-> Put(st.m_C, c, At(st.m_C, c) + 1),
                 last_c |-> c])

Pass1(text_buf, size) ==
    Pass1Loop(text_buf, size, 0,
        [bl |-> Fill(size, 0), wt_out |-> <<>>, m_C |-> Fill(AlphabetSize, 0), last_c |-> 0])

\* one iteration of the loop that turns the counts m_C into exclusive prefix
\* sums; st holds the loop's variables i, prefix_sum and the array m_C
PrefixSumBody(st) ==
    LET t == At(st.m_C, st.i)
    IN [m_C |-> Put(st.m_C, st.i, st.prefix_sum),
        prefix_sum |-> st.prefix_sum + t,
        i |-> st.i + 1]

\* the iterations from st.i up to stop - 1
RECURSIVE PrefixSumLoop(_, _)
PrefixSumLoop(st, stop) ==
    IF st.i >= stop THEN st ELSE PrefixSumLoop(PrefixSumBody(st), stop)

\* the whole loop, run Stride iterations at a time, which keeps the
\* evaluation shallow; the iterations and their order are those of the code
Stride == 16
Min(a, b) == IF a < b THEN a ELSE b
RECURSIVE PrefixSumFrom(_)
PrefixSumFrom(st) ==
    IF st.i >= AlphabetSize THEN st
    ELSE PrefixSumFrom(PrefixSumLoop(st, Min(st.i + Stride, AlphabetSize)))

PrefixSum(m_C) == PrefixSumFrom([m_C |-> m_C, prefix_sum |-> 0, i |-> 0]).m_C

\* Pass2Loop without "++lf_map[c]"
RECURSIVE Pass2LoopNoAdvance(_, _, _, _, _, _)
Pass2LoopNoAdvance(text_buf, size, bl, i, lf_map, bf) ==
    IF i >= size THEN bf
    ELSE LET c == At(text_buf, i)
         IN Pass2LoopNoAdvance(text_buf, size, bl, i + 1, lf_map,
                IF At(bl, i) = 1 THEN Put(bf, At(lf_map, c), 1) ELSE bf)

\* pass 2 (the second loop over the text): each run head marks bf at the
\* position lf_map gives its byte; lf_map[c] moves on with every c
RECURSIVE Pass2Loop(_, _, _, _, _, _)
Pass2Loop(text_buf, size, bl, i, lf_map, bf) ==
    IF i >= size THEN bf
    ELSE LET c == At(text_buf, i)
         IN Pass2Loop(text_buf, size, bl, i + 1,
                Put(lf_map, c, At(lf_map, c) + 1),
                IF At(bl, i) = 1 THEN Put(bf, At(lf_map, c), 1) ELSE bf)

Pass2(text_buf, size, bl, m_C) ==
    Pass2Loop(text_buf, size, bl, 0, m_C, Put(Fill(size + 1, 0), size, 1))

\* wt_rlmn(text_buf, size): the object built for the prefix of length size
BuildObj(o, text_buf, size) ==
    LET p1  == Pass1(text_buf, size)
        C   == PrefixSum(p1.m_C)
        bf  == Pass2(text_buf, size, p1.bl, C)
    IN [alive       |-> TRUE,
        m_size      |-> size,
        m_bl        |-> p1.bl,
        m_bf        |-> bf,
        m_wt        |-> p1.wt_out,
        m_bl_rank   |-> o,
        m_bf_rank   |-> o,
        m_bl_select |-> o,
        m_bf_select |-> o,
        m_C         |-> C,
        m_C_bf_rank |-> [k \in 1..AlphabetSize |-> BRank(bf, C[k])],
        sigma       |-> o]

\* a slot in which no object has been constructed
NoObj ==
    [alive |-> FALSE, m_size |-> 0, m_bl |-> <<>>, m_bf |-> <<>>, m_wt |-> <<>>,
     m_bl_rank |-> NULL, m_bf_rank |-> NULL, m_bl_select |-> NULL, m_bf_select |-> NULL,
     m_C |-> <<>>, m_C_bf_rank |-> <<>>, sigma |-> NULL]

\* wt_rlmn(): m_size 0, every member default-constructed, sigma bound to the
\* object's own m_wt
DefaultObj(o) == [NoObj EXCEPT !.alive = TRUE, !.sigma = o]

\* ------------------------------------------------------------------ queries

\* the object a support or the reference sigma is bound to; a support bound
\* to no vector (NULL) has nothing to read
Deref(S, p) == IF p \in DOMAIN S THEN S[p] ELSE NoObj

\* the four supports read the bit vector they are bound to (set_vector)
bl_rank(S, o, i)   == BRank(Deref(S, S[o].m_bl_rank).m_bl, i)
bf_rank(S, o, i)   == BRank(Deref(S, S[o].m_bf_rank).m_bf, i)
bl_select(S, o, j) == BSelect(Deref(S, S[o].m_bl_select).m_bl, j)
bf_select(S, o, j) == BSelect(Deref(S, S[o].m_bf_select).m_bf, j)

size(S, o) == S[o].m_size
empty(S, o) == 0 = S[o].m_size
\* the public member sigma, a reference to some object's m_wt.sigma
sigma(S, o) == WtSigma(Deref(S, S[o].sigma).m_wt)

\* operator[] reading the rank of i instead of i + 1
access_rank_i(S, o, i) == WtAccess(S[o].m_wt, bl_rank(S, o, i) - 1)

\* operator[](i)
access(S, o, i) == WtAccess(S[o].m_wt, bl_rank(S, o, i + 1) - 1)

\* rank without the "+ 1" that skips to the mark after the last c-run
rank_no_skip(S, o, i, c) ==
    IF i = 0 THEN 0
    ELSE LET wt_ex_pos == bl_rank(S, o, i)
             c_runs    == WtRank(S[o].m_wt, wt_ex_pos, c)
         IN IF c_runs = 0 THEN 0
            ELSE IF WtAccess(S[o].m_wt, wt_ex_pos - 1) = c
                 THEN LET c_run_begin == bl_select(S, o, wt_ex_pos)
                      IN bf_select(S, o, At(S[o].m_C_bf_rank, c) + c_runs)
                           - At(S[o].m_C, c) + i - c_run_begin
                 ELSE bf_select(S, o, At(S[o].m_C_bf_rank, c) + c_runs)
                           - At(S[o].m_C, c)

\* rank(i, c)
rank(S, o, i, c) ==
    IF i = 0 THEN 0
    ELSE LET wt_ex_pos == bl_rank(S, o, i)
             c_runs    == WtRank(S[o].m_wt, wt_ex_pos, c)
         IN IF c_runs = 0 THEN 0
            ELSE IF WtAccess(S[o].m_wt, wt_ex_pos - 1) = c
                 THEN LET c_run_begin == bl_select(S, o, wt_ex_pos)
                      IN bf_select(S, o, At(S[o].m_C_bf_rank, c) + c_runs)
                           - At(S[o].m_C, c) + i - c_run_begin
                 ELSE bf_select(S, o, At(S[o].m_C_bf_rank, c) + c_runs + 1)
                           - At(S[o].m_C, c)

\* inverse_select without the "+ 1" on the run count of the inner tree
inverse_select_no_inc(S, o, i) ==
    IF i = 0 THEN <<0, WtAccess(S[o].m_wt, 0)>>
    ELSE LET wt_ex_pos == bl_rank(S, o, i + 1)
             is        == WtInverseSelect(S[o].m_wt, wt_ex_pos - 1)
             c         == is[2]
             c_runs    == is[1]
         IN IF c_runs = 0 THEN <<0, c>>
            ELSE IF WtAccess(S[o].m_wt, wt_ex_pos - 1) = c
                 THEN LET c_run_begin == bl_select(S, o, wt_ex_pos)
                      IN <<bf_select(S, o, At(S[o].m_C_bf_rank, c) + c_runs)
                             - At(S[o].m_C, c) + i - c_run_begin, c>>
                 ELSE <<bf_select(S, o, At(S[o].m_C_bf_rank, c) + c_runs + 1)
                             - At(S[o].m_C, c), c>>

\* inverse_select taking the run of position i - 1 (the rank of i, as rank
\* does) instead of the run of position i
inverse_select_rank_i(S, o, i) ==
    IF i = 0 THEN <<0, WtAccess(S[o].m_wt, 0)>>
    ELSE LET wt_ex_pos == bl_rank(S, o, i)
             is        == WtInverseSelect(S[o].m_wt, wt_ex_pos - 1)
             c         == is[2]
             c_runs    == is[1] + 1
         IN IF c_runs = 0 THEN <<0, c>>
            ELSE IF WtAccess(S[o].m_wt, wt_ex_pos - 1) = c
                 THEN LET c_run_begin == bl_select(S, o, wt_ex_pos)
                      IN <<bf_select(S, o, At(S[o].m_C_bf_rank, c) + c_runs)
                             - At(S[o].m_C, c) + i - c_run_begin, c>>
                 ELSE <<bf_select(S, o, At(S[o].m_C_bf_rank, c) + c_runs + 1)
                             - At(S[o].m_C, c), c>>

\* inverse_select(i, c&): <<the value returned, the symbol left in c>>
inverse_select(S, o, i) ==
    IF i = 0 THEN <<0, WtAccess(S[o].m_wt, 0)>>
    ELSE LET wt_ex_pos == bl_rank(S, o, i + 1)
             is        == WtInverseSelect(S[o].m_wt, wt_ex_pos - 1)
             c         == is[2]
             c_runs    == is[1] + 1
         IN IF c_runs = 0 THEN <<0, c>>
            ELSE IF WtAccess(S[o].m_wt, wt_ex_pos - 1) = c
                 THEN LET c_run_begin == bl_select(S, o, wt_ex_pos)
                      IN <<bf_select(S, o, At(S[o].m_C_bf_rank, c) + c_runs)
                             - At(S[o].m_C, c) + i - c_run_begin, c>>
                 ELSE <<bf_select(S, o, At(S[o].m_C_bf_rank, c) + c_runs + 1)
                             - At(S[o].m_C, c), c>>

\* select without the "- 1" in the offset inside the run
select_offset_plus_one(S, o, j, c) ==
    LET c_runs == bf_rank(S, o, At(S[o].m_C, c) + j) - At(S[o].m_C_bf_rank, c)
        offset == At(S[o].m_C, c) + j
                    - bf_select(S, o, c_runs + At(S[o].m_C_bf_rank, c))
    IN bl_select(S, o, WtSelect(S[o].m_wt, c_runs, c) + 1) + offset

\* select(i, c), its first parameter written j
select(S, o, j, c) ==
    LET c_runs == bf_rank(S, o, At(S[o].m_C, c) + j) - At(S[o].m_C_bf_rank, c)
        offset == At(S[o].m_C, c) + j - 1
                    - bf_select(S, o, c_runs + At(S[o].m_C_bf_rank, c))
    IN bl_select(S, o, WtSelect(S[o].m_wt, c_runs, c) + 1) + offset

\* rank asserting i < size(), as operator[] does
rank_assert_strict(S, o, i) == i < size(S, o)

\* the assert()s at the head of each query
access_assert(S, o, i) == i < size(S, o)
rank_assert(S, o, i) == i <= size(S, o)
inverse_select_assert(S, o, i) == i < size(S, o)
select_assert(S, o, j, c) == j > 0 /\ j <= rank(S, o, size(S, o), c)

NoSwap == [op |-> "other", a |-> NULL, b |-> NULL]

NoRes == [op |-> "none", o |-> NULL, i |-> None, c |-> None,
          kind |-> "none", val |-> None, sym |-> None]

\* A query whose assert() fails: with assertions compiled in the process
\* aborts at the assert; under NDEBUG the query runs on, reads outside its
\* vectors (undefined behaviour) and may crash or return anything.
Outcomes(ok, v, s) ==
    IF ok THEN {[kind |-> "value", val |-> v, sym |-> s]}
    ELSE IF ~ndebug THEN {[kind |-> "assert", val |-> None, sym |-> None]}
    ELSE {[kind |-> "crash", val |-> None, sym |-> None]}
         \cup {[kind |-> "value", val |-> u, sym |-> s] : u \in UBValues}

Record(op, o, i, c, out) ==
    /\ res' = [op |-> op, o |-> o, i |-> i, c |-> c,
               kind |-> out.kind, val |-> out.val, sym |-> out.sym]
    /\ last' = NoSwap
    /\ UNCHANGED <<objs, text, stream, ndebug, hac, hsrc, hres>>

Access(o, i) ==
    /\ objs[o].alive
    /\ LET ok == access_assert(objs, o, i)
       IN \E out \in Outcomes(ok, IF ok THEN access(objs, o, i) ELSE None, None) :
              Record("access", o, i, None, out)

Rank(o, i, c) ==
    /\ objs[o].alive
    /\ LET ok == rank_assert(objs, o, i)
       IN \E out \in Outcomes(ok, IF ok THEN rank(objs, o, i, c) ELSE None, None) :
              Record("rank", o, i, c, out)

InverseSelect(o, i) ==
    /\ objs[o].alive
    /\ LET ok == inverse_select_assert(objs, o, i)
           r  == IF ok THEN inverse_select(objs, o, i) ELSE <<None, None>>
       IN \E out \in Outcomes(ok, r[1], r[2]) :
              Record("inverse_select", o, i, None, out)

Select(o, j, c) ==
    /\ objs[o].alive
    /\ LET ok == select_assert(objs, o, j, c)
       IN \E out \in Outcomes(ok, IF ok THEN select(objs, o, j, c) ELSE None, None) :
              Record("select", o, j, c, out)

\* ---------------------------------------------------------------- lifecycle

Touch(l) ==
    /\ last' = l
    /\ UNCHANGED <<ndebug, res, hac, hsrc, hres>>

\* wt_rlmn()
DefaultConstruct(o) ==
    /\ ~objs[o].alive
    /\ objs' = [objs EXCEPT ![o] = DefaultObj(o)]
    /\ text' = [text EXCEPT ![o] = <<>>]
    /\ UNCHANGED stream
    /\ Touch(NoSwap)

\* wt_rlmn(text_buf, size), size at most the length of the file
Construct(o, text_buf, n) ==
    /\ ~objs[o].alive
    /\ n <= Len(text_buf)
    /\ objs' = [objs EXCEPT ![o] = BuildObj(o, text_buf, n)]
    /\ text' = [text EXCEPT ![o] = SubSeq(text_buf, 1, n)]
    /\ UNCHANGED stream
    /\ Touch(NoSwap)

\* t_rank::set_vector / t_select::set_vector: the support sup bound to the
\* bit vector of object v
set_vector(sup, v) == v

\* copy(wt) without the set_vector calls: the supports stay bound to the
\* vectors of wt
copy_no_rebind(S, o, wt) ==
    [S[o] EXCEPT !.m_size      = S[wt].m_size,
                 !.m_bl        = S[wt].m_bl,
                 !.m_bf        = S[wt].m_bf,
                 !.m_wt        = S[wt].m_wt,
                 !.m_bl_rank   = S[wt].m_bl_rank,
                 !.m_bf_rank   = S[wt].m_bf_rank,
                 !.m_bl_select = S[wt].m_bl_select,
                 !.m_bf_select = S[wt].m_bf_select,
                 !.m_C         = S[wt].m_C,
                 !.m_C_bf_rank = S[wt].m_C_bf_rank]

\* copy(wt): object o after every member is assigned from wt and each
\* support is bound to o's own vector
copy(S, o, wt) ==
    [S[o] EXCEPT !.m_size      = S[wt].m_size,
                 !.m_bl        = S[wt].m_bl,
                 !.m_bf        = S[wt].m_bf,
                 !.m_wt        = S[wt].m_wt,
                 !.m_bl_rank   = set_vector(S[wt].m_bl_rank, o),
                 !.m_bf_rank   = set_vector(S[wt].m_bf_rank, o),
                 !.m_bl_select = set_vector(S[wt].m_bl_select, o),
                 !.m_bf_select = set_vector(S[wt].m_bf_select, o),
                 !.m_C         = S[wt].m_C,
                 !.m_C_bf_rank = S[wt].m_C_bf_rank]

\* wt_rlmn(const wt_rlmn& wt): sigma is bound to what wt.sigma refers to,
\* then copy(wt)
CopyConstruct(o, wt) ==
    /\ ~objs[o].alive
    /\ objs[wt].alive
    /\ objs' = [objs EXCEPT ![o] =
                  [copy(objs, o, wt) EXCEPT !.alive = TRUE, !.sigma = objs[wt].sigma]]
    /\ text' = [text EXCEPT ![o] = text[wt]]
    /\ UNCHANGED stream
    /\ Touch(NoSwap)

\* operator=(wt)
Assign(o, wt) ==
    /\ objs[o].alive
    /\ objs[wt].alive
    /\ objs' = IF o # wt THEN [objs EXCEPT ![o] = copy(objs, o, wt)] ELSE objs
    /\ text' = [text EXCEPT ![o] = text[wt]]
    /\ UNCHANGED stream
    /\ Touch(NoSwap)

\* swap(wt): the members of o and wt exchanged (the supports too), each
\* support then bound to the vector of the object it ended up in; the
\* reference sigma stays with its object
swap(S, o, wt) ==
    [S EXCEPT
       ![o]  = [S[wt] EXCEPT !.sigma       = S[o].sigma,
                             !.m_bl_rank   = set_vector(S[wt].m_bl_rank, o),
                             !.m_bf_rank   = set_vector(S[wt].m_bf_rank, o),
                             !.m_bl_select = set_vector(S[wt].m_bl_select, o),
                             !.m_bf_select = set_vector(S[wt].m_bf_select, o)],
       ![wt] = [S[o] EXCEPT  !.sigma       = S[wt].sigma,
                             !.m_bl_rank   = set_vector(S[o].m_bl_rank, wt),
                             !.m_bf_rank   = set_vector(S[o].m_bf_rank, wt),
                             !.m_bl_select = set_vector(S[o].m_bl_select, wt),
                             !.m_bf_select = set_vector(S[o].m_bf_select, wt)]]

Swap(o, wt) ==
    /\ objs[o].alive
    /\ objs[wt].alive
    /\ objs' = IF o # wt THEN swap(objs, o, wt) ELSE objs
    /\ text' = [text EXCEPT ![o] = text[wt], ![wt] = text[o]]
    /\ UNCHANGED stream
    /\ Touch(IF o # wt THEN [op |-> "swap", a |-> o, b |-> wt] ELSE NoSwap)

\* serialize(out): the members written in order (a support writes nothing of
\* the vector it is bound to); txt is history, the text the bytes stand for
Serialize(o) ==
    /\ objs[o].alive
    /\ stream' = [full        |-> TRUE,
                  m_size      |-> objs[o].m_size,
                  m_bl        |-> objs[o].m_bl,
                  m_bf        |-> objs[o].m_bf,
                  m_wt        |-> objs[o].m_wt,
                  m_C         |-> objs[o].m_C,
                  m_C_bf_rank |-> objs[o].m_C_bf_rank,
                  txt         |-> text[o]]
    /\ UNCHANGED <<objs, text>>
    /\ Touch(NoSwap)

\* load(in): the members read in order, each support loaded with a pointer to
\* o's own vector
Load(o) ==
    /\ objs[o].alive
    /\ stream.full
    /\ objs' = [objs EXCEPT ![o] =
                  [@ EXCEPT !.m_size      = stream.m_size,
                            !.m_bl        = stream.m_bl,
                            !.m_bf        = stream.m_bf,
                            !.m_wt        = stream.m_wt,
                            !.m_bl_rank   = o,
                            !.m_bf_rank   = o,
                            !.m_bl_select = o,
                            !.m_bf_select = o,
                            !.m_C         = stream.m_C,
                            !.m_C_bf_rank = stream.m_C_bf_rank]]
    /\ text' = [text EXCEPT ![o] = stream.txt]
    /\ UNCHANGED stream
    /\ Touch(NoSwap)

\* the build and the objects before any constructor has run
InitWt ==
    /\ objs = [o \in Slots |-> NoObj]
    /\ text = [o \in Slots |-> <<>>]
    /\ stream = [full |-> FALSE]
    /\ ndebug \in BOOLEAN
    /\ res = NoRes
    /\ last = NoSwap

InitHacIdle ==
    /\ hac = [built |-> FALSE]
    /\ hsrc = <<>>
    /\ hres = [i |-> None, val |-> <<0, 0, 0, 0>>]

Init == InitWt /\ InitHacIdle

\* A run of the query machine: one object is constructed and one query is put
\* to it.  The queries are const members: a second query would meet the same
\* object, so one query per run reaches every (object, query) pair.
Fresh == res = NoRes
\* the positions and occurrence numbers asked about: the legal ones and the
\* first one past them
Args == 0..(objs[1].m_size + 1)

Next ==
    \/ DefaultConstruct(1)
    \/ \E text_buf \in Texts : \E n \in 0..Len(text_buf) : Construct(1, text_buf, n)
    \/ \E i \in Args : Fresh /\ Access(1, i)
    \/ \E i \in Args : \E c \in QueryBytes : Fresh /\ Rank(1, i, c)
    \/ \E i \in Args : Fresh /\ InverseSelect(1, i)
    \/ \E j \in Args : \E c \in QueryBytes : Fresh /\ Select(1, j, c)

Spec == Init /\ [][Next]_vars

\* Several objects: constructed, copied, assigned, swapped, written to the
\* stream and loaded from it.
NextObj ==
    \/ \E o \in Slots : DefaultConstruct(o)
    \/ \E o \in Slots : \E text_buf \in ObjTexts : Construct(o, text_buf, Len(text_buf))
    \/ \E o, wt \in Slots : CopyConstruct(o, wt)
    \/ \E o, wt \in Slots : Assign(o, wt)
    \/ \E o, wt \in Slots : Swap(o, wt)
    \/ \E o \in Slots : Serialize(o)
    \/ \E o \in Slots : Load(o)

SpecObj == Init /\ [][NextObj]_vars

\* The same operations where the stream already holds an object, written by
\* an earlier serialize of the RLWT built from the text "a": load(in) reads
\* whatever stream it is given.
FileText == <<97>>
InitCopy ==
    /\ objs = [o \in Slots |-> NoObj]
    /\ text = [o \in Slots |-> <<>>]
    /\ LET w == BuildObj(1, FileText, Len(FileText))
       IN stream = [full        |-> TRUE,
                    m_size      |-> w.m_size,
                    m_bl        |-> w.m_bl,
                    m_bf        |-> w.m_bf,
                    m_wt        |-> w.m_wt,
                    m_C         |-> w.m_C,
                    m_C_bf_rank |-> w.m_C_bf_rank,
                    txt         |-> FileText]
    /\ ndebug \in BOOLEAN
    /\ res = NoRes
    /\ last = NoSwap
    /\ InitHacIdle

SpecCopy == InitCopy /\ [][NextObj]_vars

\* --------------------------------------------------------------- hac_vector

(***************************************************************************)
(* value_type is a 64-bit unsigned integer.  It is kept here as four       *)
(* 16-bit limbs <<l0, l1, l2, l3>>, least significant first, so that no    *)
(* number of the model exceeds 32 bits.                                    *)
(***************************************************************************)
Limb == 2 ^ 16
HalfLimb == 2 ^ 15

\* the conversion int -> value_type (sign extension to 64 bits), x a 32-bit int
FromInt(x) ==
    IF x >= 0 THEN <<x % Limb, x \div Limb, 0, 0>>
    ELSE LET y == 0 - (x + 1)
         IN <<(Limb - 1) - (y % Limb), (Limb - 1) - (y \div Limb), Limb - 1, Limb - 1>>

\* the conversion value_type -> int: the low 32 bits, read as a signed int
ToInt(a) == IF a[2] >= HalfLimb THEN (a[2] - Limb) * Limb + a[1] ELSE a[2] * Limb + a[1]

\* a <= b on value_type
Leq(a, b) ==
    \/ a[4] < b[4]
    \/ a[4] = b[4] /\ a[3] < b[3]
    \/ a[4] = b[4] /\ a[3] = b[3] /\ a[2] < b[2]
    \/ a[4] = b[4] /\ a[3] = b[3] /\ a[2] = b[2] /\ a[1] <= b[1]

\* a + 1 on value_type, modulo 2^64
Inc(a) ==
    IF a[1] < Limb - 1 THEN <<a[1] + 1, a[2], a[3], a[4]>>
    ELSE IF a[2] < Limb - 1 THEN <<0, a[2] + 1, a[3], a[4]>>
    ELSE IF a[3] < Limb - 1 THEN <<0, 0, a[3] + 1, a[4]>>
    ELSE IF a[4] < Limb - 1 THEN <<0, 0, 0, a[4] + 1>>
    ELSE <<0, 0, 0, 0>>

\* what an entry of int_vector<i_w> keeps of a value: its low i_w bits
Stored(a, i_w) ==
    IF i_w = 8 THEN <<a[1] % 256, 0, 0, 0>>
    ELSE IF i_w = 16 THEN <<a[1], 0, 0, 0>>
    ELSE <<a[1], a[2], 0, 0>>

\* the template parameter i_w
Widths == {8, 16, 32}

\* 1 << i_w, computed in int.  For i_w = 32 the shift count equals the width
\* of int, which is undefined: the builds produce 1 (the count taken modulo
\* 32) or 0 (the bit shifted out).
ShiftOne(i_w) == IF i_w < 32 THEN {2 ^ i_w} ELSE {0, 1}

\* treshold = (1 << i_w) - 2, converted to value_type
Tresholds(i_w) == {FromInt(sh - 2) : sh \in ShiftOne(i_w)}

\* the loop of the container constructor from position i on
RECURSIVE HacFill(_, _, _)
HacFill(v, C, i) ==
    IF i >= Len(C) THEN v
    ELSE LET val == At(C, i)
         IN HacFill(IF Leq(val, v.treshold)
                    THEN [v EXCEPT !.m_data = Put(v.m_data, i, Stored(val, v.i_w))]
                    ELSE [v EXCEPT !.m_map = (i :> val) @@ v.m_map],
                    C, i + 1)

\* hac_vector<i_w>(C), with the member initialisers treshold and ott
HacBuild(i_w, treshold, C) ==
    LET ott == Inc(treshold)
    IN HacFill([built    |-> TRUE,
                i_w      |-> i_w,
                treshold |-> treshold,
                ott      |-> ott,
                m_data   |-> Fill(Len(C), Stored(ott, i_w)),
                m_map    |-> <<>>],
               C, 0)

\* operator[](i)
HacAt(v, i) ==
    IF Leq(At(v.m_data, i), v.treshold)
    THEN At(v.m_data, i)
    ELSE LET val == IF i \in DOMAIN v.m_map THEN ToInt(v.m_map[i]) ELSE 0
         IN FromInt(val)

\* the values the containers hold: around each treshold, around 2^31 and
\* 2^32, and the largest
HacValues ==
    {<<0, 0, 0, 0>>, <<254, 0, 0, 0>>, <<255, 0, 0, 0>>,
     <<Limb - 2, 0, 0, 0>>, <<Limb - 1, 0, 0, 0>>,
     <<Limb - 1, HalfLimb - 1, 0, 0>>, <<0, HalfLimb, 0, 0>>,
     <<Limb - 2, Limb - 1, 0, 0>>, <<Limb - 1, Limb - 1, 0, 0>>,
     <<0, 0, 1, 0>>, <<Limb - 1, Limb - 1, Limb - 1, Limb - 1>>}
HacInputs == SeqsUpTo(HacValues, MaxHacLen)

HacConstruct(i_w, C) ==
    /\ ~hac.built
    /\ \E treshold \in Tresholds(i_w) : hac' = HacBuild(i_w, treshold, C)
    /\ hsrc' = C
    /\ UNCHANGED <<objs, text, stream, ndebug, res, last, hres>>

HacGet(i) ==
    /\ hac.built
    /\ i < Len(hac.m_data)
    /\ hres' = [i |-> i, val |-> HacAt(hac, i)]
    /\ UNCHANGED <<objs, text, stream, ndebug, res, last, hac, hsrc>>

NextHac ==
    \/ \E i_w \in Widths : \E C \in HacInputs : HacConstruct(i_w, C)
    \/ \E i \in 0..(MaxHacLen - 1) : HacGet(i)

SpecHac == Init /\ [][NextHac]_vars

\* ------------------------------------------------------------- properties

\* number of positions j < i of the text T with T[j] = c
Count(T, i, c) == Cardinality({j \in 0..(i - 1) : At(T, j) = c})
\* number of maximal equal-byte runs of T
Runs(T) == Cardinality({i \in 0..(Len(T) - 1) : i = 0 \/ At(T, i) # At(T, i - 1)})
Popcount(v) == Cardinality({k \in 0..(Len(v) - 1) : At(v, k) = 1})

\* Built: left by the constructor from a text (m_bf holds its sentinel);
\* Empty: left by the default constructor
IsBuilt(o) == objs[o].alive /\ Len(objs[o].m_bf) = objs[o].m_size + 1
IsEmpty(o) == objs[o].alive /\ objs[o].m_size = 0 /\ objs[o].m_bf = <<>>

\* the last query was op, put to a Built object
Asked(op) == res.op = op /\ IsBuilt(res.o)
\* the text of the object last queried, and its length
AskedText == text[res.o]
AskedLen == Len(text[res.o])

\* the last query lay outside the legal domain of its operation
OutOfDomain ==
    \/ res.op \in {"access", "inverse_select"} /\ res.i >= AskedLen
    \/ res.op = "rank" /\ res.i > AskedLen
    \/ res.op = "select" /\ (res.i = 0 \/ res.i > Count(AskedText, AskedLen, res.c))

\* C1: on a Built object, rank(i, c) with i in [0, n] returns the number of
\* positions j < i with T[j] = c, for bytes that occur in T and bytes that do
\* not, whether or not the run holding i - 1 is a c-run.
C1_RankCounts ==
    (Asked("rank") /\ res.i <= AskedLen)
        => (res.kind = "value" /\ res.val = Count(AskedText, res.i, res.c))

\* a rank query answered 2 just after a run of another byte, with more of the
\* text to come
C1_Witness ==
    /\ Asked("rank") /\ res.kind = "value" /\ res.val = 2
    /\ res.i >= 1 /\ res.i < AskedLen
    /\ At(AskedText, res.i - 1) # res.c

\* C2: on a Built object, access(i) with i in [0, n) returns T[i].
C2_AccessReturnsText ==
    (Asked("access") /\ res.i < AskedLen)
        => (res.kind = "value" /\ res.val = At(AskedText, res.i))

\* an access inside a run (not at its head) that is not the first run
C2_Witness ==
    /\ Asked("access") /\ res.kind = "value"
    /\ res.i >= 2
    /\ At(AskedText, res.i) = At(AskedText, res.i - 1)
    /\ At(AskedText, 0) # res.val

\* C3: on a Built object, for a byte c occurring k >= 1 times and j in [1, k],
\* p = select(j, c) satisfies T[p] = c and rank(p, c) = j - 1.
C3_SelectFindsOccurrence ==
    (Asked("select") /\ res.i >= 1 /\ res.i <= Count(AskedText, AskedLen, res.c))
        => /\ res.kind = "value"
           /\ At(AskedText, res.val) = res.c
           /\ Count(AskedText, res.val, res.c) = res.i - 1
           /\ rank(objs, res.o, res.val, res.c) = res.i - 1

\* the second occurrence of a byte found inside its second run
C3_Witness ==
    /\ Asked("select") /\ res.kind = "value" /\ res.i = 2
    /\ res.val >= 2
    /\ At(AskedText, res.val - 1) # res.c

\* C4: on a Built object, inverse_select(i) with i in [0, n) returns the pair
\* (rank(i, T[i]), T[i]).
C4_InverseSelectPair ==
    (Asked("inverse_select") /\ res.i < AskedLen)
        => /\ res.kind = "value"
           /\ res.sym = At(AskedText, res.i)
           /\ res.val = rank(objs, res.o, res.i, At(AskedText, res.i))
           /\ res.val = Count(AskedText, res.i, res.sym)

\* an inverse_select at a position whose byte occurred before, in another run
C4_Witness ==
    /\ Asked("inverse_select") /\ res.kind = "value"
    /\ res.val >= 1 /\ res.i >= 2
    /\ At(AskedText, res.i - 1) # res.sym

\* C5: on a Built object every query outside its legal domain (access or
\* inverse_select with i >= n, rank with i > n, select with j = 0 or
\* j > rank(n, c)) ends in an explicit error and returns no value.
C5_OutOfDomainFails ==
    ((res.op # "none") /\ IsBuilt(res.o) /\ OutOfDomain) => res.kind = "assert"

C9_InverseSelect7Is2 ==
    (Asked("inverse_select") /\ AskedText = Abracadabra /\ res.i = 7)
        => (res.kind = "value" /\ res.val = 2 /\ res.sym = 97)

\* C9 as amended: inverse_select(7) on "abracadabra" returns (3, 'a'): three
\* a's (positions 0, 3, 5) precede position 7.
C9_InverseSelect7Is3 ==
    (Asked("inverse_select") /\ AskedText = Abracadabra /\ res.i = 7)
        => (res.kind = "value" /\ res.val = 3 /\ res.sym = 97)

\* inverse_select(7) was put to the object built from "abracadabra"
C9_Witness ==
    /\ Asked("inverse_select") /\ AskedText = Abracadabra /\ res.i = 7
    /\ res.kind = "value"

\* C10: after construction from a text of length n with r runs, BL has r ones,
\* BF has r + 1 ones and BF[n] = 1.
C10_Popcounts ==
    \A o \in Slots :
        IsBuilt(o) =>
            /\ Len(objs[o].m_bl) = Len(text[o])
            /\ Popcount(objs[o].m_bl) = Runs(text[o])
            /\ Popcount(objs[o].m_bf) = Runs(text[o]) + 1
            /\ At(objs[o].m_bf, Len(text[o])) = 1

\* an object built from a text with three runs, one of them longer than one
C10_Witness ==
    \E o \in Slots :
        /\ IsBuilt(o) /\ Runs(text[o]) = 3 /\ Len(text[o]) = 4
        /\ At(text[o], 0) = At(text[o], 3)

\* every legal query of object o with its answer
Answers(S, o) ==
    [size           |-> size(S, o),
     access         |-> [i \in 0..(size(S, o) - 1) |-> access(S, o, i)],
     rank           |-> [q \in (0..size(S, o)) \X QueryBytes |-> rank(S, o, q[1], q[2])],
     inverse_select |-> [i \in 0..(size(S, o) - 1) |-> inverse_select(S, o, i)],
     select         |-> [c \in QueryBytes |->
                            [j \in 1..rank(S, o, size(S, o), c) |-> select(S, o, j, c)]]]

Supports(S, o) == {S[o].m_bl_rank, S[o].m_bf_rank, S[o].m_bl_select, S[o].m_bf_select}
\* the four supports of o are bound to o's own vectors
BoundToOwn(S, o) == Supports(S, o) = {o}

\* no support is bound to another object's vector: each is bound to its own
\* object's, or the object is still as its default constructor left it
NeverBoundToAnother ==
    \A o \in Slots :
        objs[o].alive => (BoundToOwn(objs, o) \/ (Supports(objs, o) = {NULL} /\ IsEmpty(o)))

\* a copy construction, an assignment from another object or a load leaves
\* its target bound to its own vectors; a swap of two objects leaves both so,
\* each answering every query as the other did before
RebindStep ==
    \A o, wt \in Slots :
        /\ BoundToOwn(objs', o) \/ ~CopyConstruct(o, wt)
        /\ BoundToOwn(objs', o) \/ o = wt \/ ~Assign(o, wt)
        /\ BoundToOwn(objs', o) \/ ~Load(o)
        /\ (o # wt /\ last' = [op |-> "swap", a |-> o, b |-> wt] /\ Swap(o, wt)) =>
               /\ BoundToOwn(objs', o)
               /\ BoundToOwn(objs', wt)
               /\ Answers(objs', o) = Answers(objs, wt)
               /\ Answers(objs', wt) = Answers(objs, o)

\* C7: after any sequence of copy-construction, copy-assignment, swap and
\* load, the four supports of every object are bound to that object's own BL
\* and BF, never to another object's; after swap(a, b) a answers every query
\* as b did before and b as a did.
C7_SupportsRebound == []NeverBoundToAnother /\ [][RebindStep]_vars

\* two Built objects with different texts have just been swapped, one of them
\* a copy
C7_Witness ==
    /\ last.op = "swap" /\ last.a # last.b
    /\ IsBuilt(last.a) /\ IsBuilt(last.b)
    /\ Len(text[last.a]) >= 1 /\ Len(text[last.b]) >= 2
    /\ BoundToOwn(objs, last.a) /\ BoundToOwn(objs, last.b)
    /\ objs[last.a].sigma # last.a

\* C8: for every width, every container S and every i < |S|, get(i) on the
\* hac_vector built from S returns S[i], small values from the primary array
\* and larger ones in full from the exception map.
C8_GetReturnsStored ==
    (hac.built /\ hres.i # None) => hres.val = At(hsrc, hres.i)

\* every observable of object o: size, sigma and the answer to every legal
\* query
Observables(S, o) == [sigma |-> sigma(S, o), answers |-> Answers(S, o)]

\* b was copy-constructed from a, as the state shows it: only a copy
\* constructor binds an object's reference sigma outside the object, b's is
\* bound where a's own is, and no third object it could have come from is
\* bound there
CopyOf(b, a) ==
    /\ a # b /\ objs[a].alive /\ objs[b].alive
    /\ objs[a].sigma = a /\ objs[b].sigma = a
    /\ \A c \in Slots \ {a, b} : objs[c].sigma # a

\* this step is a swap, a copy-assignment or a load applied to a that does
\* not have b as the other object of the swap
AppliedTo(a, b) ==
    \/ Load(a)
    \/ \E wt \in Slots : Assign(a, wt)
    \/ \E wt \in Slots \ {b} : Swap(a, wt)

\* C11: once b is copy-constructed from a, no later swap, copy-assignment or
\* load applied to a changes any observable of b: its size, its sigma and
\* its answers to access, rank, select and inverse_select stay as they were.
C11_CopyIndependent ==
    [][\A a, b \in Slots :
          (CopyOf(b, a) /\ AppliedTo(a, b)) => Observables(objs', b) = Observables(objs, b)]_vars

====
